---- MODULE Spec2Model ----
(***************************************************************************)
(* Time-indexed media layers of movis/layer/media.py: Image (still image), *)
(* ImageSequence (interval sequence) and Video (frame-rate video).         *)
(*                                                                         *)
(* One layer object is constructed (Init), then a compositor calls its     *)
(* get_key / __call__ (evaluate) / size operations in any order.           *)
(*                                                                         *)
(* Times are multiples of 1/TicksPerUnit of a time unit, held as integer    *)
(* tick counts.  The products and sums of from_files are rounded as binary *)
(* floating point rounds them, in a format of Precision significant bits;  *)
(* the times of Spec are small enough to be exact in it, those of          *)
(* SpecFloat are not.                                                      *)
(* Python's 0-based index k of a list is position k+1 of a sequence.       *)
(***************************************************************************)
EXTENDS Integers, Sequences, FiniteSets, TLC

VARIABLES
    kind,         \* class of the constructed object
    err,          \* "ok", or the exception that ended the constructor
    ctor,         \* how the object was built, and from_files' each_duration
    fs,           \* the paths that exist on the filesystem
    img_file,     \* Image: the constructor argument (self._img_file when a path)
    image,        \* Image.image
    duration,     \* Image._duration / Video._duration, in ticks
    start_times,  \* TimelineMixin.start_times, in ticks
    end_times,    \* TimelineMixin.end_times, in ticks
    img_files,    \* ImageSequence.img_files
    images,       \* ImageSequence.images
    fps,          \* Video._fps, frames per time unit
    n_frame,      \* Video._n_frame
    decodeCalls,  \* number of PILImage.open(...) calls made by the layer
    readerCalls,  \* number of self._reader.get_data(...) calls
    requested,    \* the frame index of the last get_data call
    resolved,     \* indices >= 0 that ImageSequence.__call__ resolved to, kept
                  \* for the layers whose assets are all paths
    queried,      \* Image: number of __call__ and size calls so far (saturating)
    ret,          \* the last call: operation, time argument, returned value
    threads       \* per thread: its position inside __call__, its time
                  \* argument and its local variables idx and image

vars == <<kind, err, ctor, fs, img_file, image, duration, start_times,
          end_times, img_files, images, fps, n_frame, decodeCalls,
          readerCalls, requested, resolved, queried, ret, threads>>

----------------------------------------------------------------------------
(* Bounds of the model *)

MaxTime == 2
MaxIntervals == 2
MaxAssets == 2
MaxFps == 2
MaxFrames == 3
MaxCalls == 2
TicksPerUnit == 2

\* start and end times, in ticks
Times == 0..MaxTime

\* the time arguments of get_key and __call__: from one tick before 0 to the
\* last tick, which no caller-supplied interval holds
TimeArgs == (0 - 1)..MaxTime

\* durations leave a time argument after the end
MaxDuration == MaxTime - 1

\* from_files' each_duration, 0 included
MaxEach == MaxTime

\* no run of the layers below makes more codec calls than this
DecodeCap == MaxIntervals + MaxAssets

\* significant bits of the floating-point format of the times
Precision == 4

\* SpecFloat: the longest from_files list and the largest each_duration
MaxFloatLen == 7
MaxFloatEach == 7

\* the threads of SpecThreads
Threads == {1, 2}

----------------------------------------------------------------------------
(* Values *)

None == [tag |-> "None"]

Raise(e) == [tag |-> "raise", exc |-> e]

NdArray(s, d, c, t) ==
    [tag |-> "ndarray", src |-> s, ndim |-> d, channels |-> c, dtype |-> t]

PilImage(s, m) == [tag |-> "pil", src |-> s, mode |-> m]

PathOf(p) == [tag |-> "path", path |-> p]

Paths == {"a.png", "b.png"}

ExistingPaths == {"a.png"}

FileMode(p) == IF p = "a.png" THEN "RGB" ELSE "L"

Bands(m) == CASE m = "L" -> 1 [] m = "RGB" -> 3 [] m = "RGBA" -> 4

RGBA == 4

\* PIL.Image.open: the image as stored in the file
PILImage_open(p) == PilImage(p, FileMode(p))

\* PIL.Image.convert
convert(im, m) == [im EXCEPT !.mode = m]

\* numpy.asarray of a PIL image: (H, W) for one band, (H, W, bands) otherwise
np_asarray(im) ==
    NdArray(im.src, IF Bands(im.mode) = 1 THEN 2 ELSE 3, Bands(im.mode), "uint8")

\* constructor arguments
PilInputs == {PilImage("pil", "RGB")}

NdInputs ==
    { NdArray("nd", 2, 0, t) : t \in {"uint8", "float32"} }
        \cup { NdArray("nd", d, c, "uint8") : d \in {3, 4}, c \in {3, 4} }

OtherInputs == {[tag |-> "int"]}

ImageInputs ==
    {PathOf(p) : p \in Paths} \cup PilInputs \cup NdInputs \cup OtherInputs

SeqInputs ==
    {PathOf(p) : p \in Paths} \cup PilInputs
        \cup {NdArray("nd", 2, 0, "uint8"), NdArray("nd", 3, 3, "uint8"),
              NdArray("nd", 3, 4, "uint8")}

\* the elements of img_files when the caller also supplies the times: paths,
\* decoded lazily (from_files layers take every kind of SeqInputs)
DirectInputs == {PathOf("a.png")}

IsPath(x) == x.tag = "path"

----------------------------------------------------------------------------
(* Floating point *)

\* the number of binary digits of x >= 1
bit_length(x) == CHOOSE k \in 1..(2 * Precision + 8) : 2 ^ (k - 1) <= x /\ x < 2 ^ k

\* the floating-point result of an operation whose exact result is x ticks:
\* x rounded to Precision significant bits, to nearest, ties to even
fl(x) ==
    IF x < 2 ^ Precision THEN x
    ELSE LET u == 2 ^ (bit_length(x) - Precision)
             q == x \div u
             r == x % u
         IN  IF 2 * r < u THEN q * u
             ELSE IF 2 * r > u THEN (q + 1) * u
             ELSE IF q % 2 = 0 THEN q * u
             ELSE (q + 1) * u

\* x is a value of the format
IsFloat(x) == fl(x) = x

\* the largest value of the format below x (numpy.nextafter(x, -inf)), for
\* x >= 0
pred(x) ==
    IF x <= 0 THEN x - 1
    ELSE CHOOSE y \in 0..(x - 1) :
           IsFloat(y) /\ \A z \in (y + 1)..(x - 1) : ~IsFloat(z)

----------------------------------------------------------------------------
(* Image *)

\* the grey -> RGBA expansion of Image.__init__
GrayToRGBA(a) ==
    LET img == [a EXCEPT !.ndim = a.ndim + 1, !.channels = 1]
        rgb == [img EXCEPT !.channels = 3 * img.channels]
    IN  [rgb EXCEPT !.channels = rgb.channels + img.channels, !.dtype = "uint8"]

Image__init__(f, exists) ==
    IF f.tag = "path" THEN
        IF f.path \in exists THEN [err |-> "ok", image |-> None]
        ELSE [err |-> "AssertionError", image |-> None]
    ELSE IF f.tag = "pil" THEN
        [err |-> "ok", image |-> np_asarray(convert(f, "RGBA"))]
    ELSE IF f.tag = "ndarray" THEN
        IF f.ndim = 2 THEN
            IF f.dtype = "uint8" THEN [err |-> "ok", image |-> GrayToRGBA(f)]
            ELSE [err |-> "AssertionError", image |-> None]
        ELSE IF f.ndim = 3 THEN
            IF f.channels = RGBA THEN [err |-> "ok", image |-> f]
            ELSE [err |-> "AssertionError", image |-> None]
        ELSE [err |-> "ValueError", image |-> None]
    ELSE [err |-> "ValueError", image |-> None]

\* get_key with the window closed on the right
ImageKey_closed(t) == 0 <= t /\ t <= duration

\* Image.get_key as a function of the object's state
ImageKey(t) == 0 <= t /\ t < duration

\* _read_image that decodes but forgets to store the array in self.image
Image_read_image_unstored ==
    IF image = None THEN
        IF ~IsPath(img_file) THEN
            [out |-> Raise("AssertionError"), image |-> image, calls |-> 0]
        ELSE IF img_file.path \notin fs THEN
            [out |-> Raise("FileNotFoundError"), image |-> image, calls |-> 1]
        ELSE
            LET im == np_asarray(convert(PILImage_open(img_file.path), "RGBA"))
            IN  [out |-> im, image |-> image, calls |-> 1]
    ELSE [out |-> image, image |-> image, calls |-> 0]

\* Image._read_image: the returned value, the new self.image, the codec calls
Image_read_image ==
    IF image = None THEN
        IF ~IsPath(img_file) THEN
            [out |-> Raise("AssertionError"), image |-> image, calls |-> 0]
        ELSE IF img_file.path \notin fs THEN
            [out |-> Raise("FileNotFoundError"), image |-> image, calls |-> 1]
        ELSE
            LET im == np_asarray(convert(PILImage_open(img_file.path), "RGBA"))
            IN  [out |-> im, image |-> im, calls |-> 1]
    ELSE [out |-> image, image |-> image, calls |-> 0]

\* get_key that reads the image, as size does
Image_get_key_reading(t) ==
    /\ kind = "Image" /\ err = "ok"
    /\ LET r == Image_read_image
       IN  /\ decodeCalls + r.calls <= DecodeCap
           /\ image' = r.image
           /\ decodeCalls' = decodeCalls + r.calls
    /\ ret' = [op |-> "get_key", time |-> t, value |-> ImageKey(t)]
    /\ UNCHANGED <<threads, kind, err, ctor, fs, img_file, duration, start_times,
                   end_times, img_files, images, fps, n_frame, readerCalls,
                   requested, resolved, queried>>

Image_get_key(t) ==
    /\ kind = "Image" /\ err = "ok"
    /\ ret' = [op |-> "get_key", time |-> t, value |-> ImageKey(t)]
    /\ UNCHANGED <<threads, kind, err, ctor, fs, img_file, image, duration, start_times,
                   end_times, img_files, images, fps, n_frame, decodeCalls,
                   readerCalls, requested, resolved, queried>>

\* __call__ that returns None outside the window of get_key
Image__call___windowed(t) ==
    /\ kind = "Image" /\ err = "ok"
    /\ LET r == Image_read_image
       IN  /\ decodeCalls + r.calls <= DecodeCap
           /\ image' = r.image
           /\ decodeCalls' = decodeCalls + r.calls
           /\ ret' = [op |-> "evaluate", time |-> t,
                      value |-> IF ImageKey(t) THEN r.out ELSE None]
    /\ queried' = IF queried < MaxCalls THEN queried + 1 ELSE queried
    /\ UNCHANGED <<threads, kind, err, ctor, fs, img_file, duration, start_times,
                   end_times, img_files, images, fps, n_frame, readerCalls,
                   requested, resolved>>

Image__call__(t) ==
    /\ kind = "Image" /\ err = "ok"
    /\ LET r == Image_read_image
       IN  /\ decodeCalls + r.calls <= DecodeCap
           /\ image' = r.image
           /\ decodeCalls' = decodeCalls + r.calls
           /\ ret' = [op |-> "evaluate", time |-> t, value |-> r.out]
    /\ queried' = IF queried < MaxCalls THEN queried + 1 ELSE queried
    /\ UNCHANGED <<threads, kind, err, ctor, fs, img_file, duration, start_times,
                   end_times, img_files, images, fps, n_frame, readerCalls,
                   requested, resolved>>

\* the size property: (width, height) of the array _read_image returns
Image_size ==
    /\ kind = "Image" /\ err = "ok"
    /\ LET r == Image_read_image
       IN  /\ decodeCalls + r.calls <= DecodeCap
           /\ image' = r.image
           /\ decodeCalls' = decodeCalls + r.calls
           /\ ret' = [op |-> "size", time |-> 0,
                      value |-> IF r.out.tag = "ndarray"
                                THEN [tag |-> "shape", src |-> r.out.src]
                                ELSE r.out]
    /\ queried' = IF queried < MaxCalls THEN queried + 1 ELSE queried
    /\ UNCHANGED <<threads, kind, err, ctor, fs, img_file, duration, start_times,
                   end_times, img_files, images, fps, n_frame, readerCalls,
                   requested, resolved>>

----------------------------------------------------------------------------
(* TimelineMixin (movis/layer/mixin.py): the interval lookup *)

\* indices of the intervals [start, end) that contain t
Containing(t) ==
    { i \in 0..(Len(start_times) - 1) :
        start_times[i + 1] <= t /\ t < end_times[i + 1] }

\* TimelineMixin.get_state: the containing interval, first in construction
\* order, or -1
get_state(t) ==
    IF Containing(t) = {} THEN 0 - 1
    ELSE CHOOSE i \in Containing(t) : \A j \in Containing(t) : i <= j

----------------------------------------------------------------------------
(* ImageSequence *)

\* the constructor's loop without the existence assertion on paths
SeqCheck_unasserted(f, exists) ==
    IF f.tag = "path" THEN "ok"
    ELSE IF f.tag = "pil" THEN "ok"
    ELSE IF f.tag = "ndarray" THEN "ok"
    ELSE "ValueError"

\* the exception the constructor's loop raises at element f, or "ok"
SeqCheck(f, exists) ==
    IF f.tag = "path" THEN
        IF f.path \in exists THEN "ok" ELSE "AssertionError"
    ELSE IF f.tag = "pil" THEN "ok"
    ELSE IF f.tag = "ndarray" THEN "ok"
    ELSE "ValueError"

\* a constructor that leaves arrays to be materialised on first use
SeqSlot_lazy(f) ==
    IF f.tag = "pil" THEN np_asarray(convert(f, "RGBA"))
    ELSE None

\* the cache slot the constructor's loop leaves for element f
SeqSlot(f) ==
    IF f.tag = "pil" THEN np_asarray(convert(f, "RGBA"))
    ELSE IF f.tag = "ndarray" THEN f
    ELSE None

ImageSequence__init__(files, exists) ==
    LET bad == { i \in 1..Len(files) : SeqCheck(files[i], exists) # "ok" }
        first == CHOOSE i \in bad : \A j \in bad : i <= j
    IN  IF bad = {} THEN
            [err |-> "ok", images |-> [i \in 1..Len(files) |-> SeqSlot(files[i])]]
        ELSE
            [err |-> SeqCheck(files[first], exists),
             images |-> [i \in 1..Len(files) |->
                           IF i < first THEN SeqSlot(files[i]) ELSE None]]

\* from_files: the start and end times it passes to the constructor
from_files(files, each_duration) ==
    LET st == [i \in 1..Len(files) |-> fl((i - 1) * each_duration)]
    IN  [start_times |-> st,
         end_times |-> [i \in 1..Len(files) |-> fl(st[i] + each_duration)]]

\* get_key numbering the images from 1
ImageSequenceKey_onebased(t) ==
    LET idx == get_state(t)
    IN  IF idx < 0 THEN 0 - 1 ELSE idx + 1

\* ImageSequence.get_key as a function of the object's state
ImageSequenceKey(t) ==
    LET idx == get_state(t)
    IN  IF idx < 0 THEN 0 - 1 ELSE idx

\* __call__ without the idx < 0 test: self.images[-1] is the last element
ImageSequenceCall_unchecked(t) ==
    LET idx == IF get_state(t) < 0 THEN Len(images) - 1 ELSE get_state(t)
    IN  IF idx < 0 \/ idx >= Len(images) THEN
            [out |-> Raise("IndexError"), images |-> images, calls |-> 0]
        ELSE IF images[idx + 1] = None THEN
            IF idx >= Len(img_files) THEN
                [out |-> Raise("IndexError"), images |-> images, calls |-> 0]
            ELSE IF ~IsPath(img_files[idx + 1]) THEN
                [out |-> Raise("AssertionError"), images |-> images, calls |-> 0]
            ELSE IF img_files[idx + 1].path \notin fs THEN
                [out |-> Raise("FileNotFoundError"), images |-> images, calls |-> 1]
            ELSE
                LET im == np_asarray(convert(PILImage_open(img_files[idx + 1].path), "RGBA"))
                IN  [out |-> im, images |-> [images EXCEPT ![idx + 1] = im], calls |-> 1]
        ELSE [out |-> images[idx + 1], images |-> images, calls |-> 0]

\* __call__ that answers a failed decode with a blank buffer and caches it
ImageSequenceCall_fallback(t) ==
    LET idx == get_state(t)
    IN  IF idx < 0 THEN [out |-> None, images |-> images, calls |-> 0]
        ELSE IF idx >= Len(images) THEN
            [out |-> Raise("IndexError"), images |-> images, calls |-> 0]
        ELSE IF images[idx + 1] = None THEN
            IF idx >= Len(img_files) THEN
                [out |-> Raise("IndexError"), images |-> images, calls |-> 0]
            ELSE IF ~IsPath(img_files[idx + 1]) THEN
                [out |-> Raise("AssertionError"), images |-> images, calls |-> 0]
            ELSE IF img_files[idx + 1].path \notin fs THEN
                LET im == NdArray("blank", 3, 4, "uint8")
                IN  [out |-> im, images |-> [images EXCEPT ![idx + 1] = im], calls |-> 1]
            ELSE
                LET im == np_asarray(convert(PILImage_open(img_files[idx + 1].path), "RGBA"))
                IN  [out |-> im, images |-> [images EXCEPT ![idx + 1] = im], calls |-> 1]
        ELSE [out |-> images[idx + 1], images |-> images, calls |-> 0]

\* __call__ that keeps only the buffer it returns and drops the other slots
ImageSequenceCall_evicting(t) ==
    LET idx == get_state(t)
    IN  IF idx < 0 THEN [out |-> None, images |-> images, calls |-> 0]
        ELSE IF idx >= Len(images) THEN
            [out |-> Raise("IndexError"), images |-> images, calls |-> 0]
        ELSE IF images[idx + 1] = None THEN
            IF idx >= Len(img_files) THEN
                [out |-> Raise("IndexError"), images |-> images, calls |-> 0]
            ELSE IF ~IsPath(img_files[idx + 1]) THEN
                [out |-> Raise("AssertionError"), images |-> images, calls |-> 0]
            ELSE IF img_files[idx + 1].path \notin fs THEN
                [out |-> Raise("FileNotFoundError"), images |-> images, calls |-> 1]
            ELSE
                LET im == np_asarray(convert(PILImage_open(img_files[idx + 1].path), "RGBA"))
                IN  [out |-> im,
                     images |-> [i \in 1..Len(images) |->
                                   IF i = idx + 1 THEN im ELSE None],
                     calls |-> 1]
        ELSE [out |-> images[idx + 1], images |-> images, calls |-> 0]

\* ImageSequence.__call__: the returned value, the new self.images, the
\* codec calls
ImageSequenceCall(t) ==
    LET idx == get_state(t)
    IN  IF idx < 0 THEN [out |-> None, images |-> images, calls |-> 0]
        ELSE IF idx >= Len(images) THEN
            [out |-> Raise("IndexError"), images |-> images, calls |-> 0]
        ELSE IF images[idx + 1] = None THEN
            IF idx >= Len(img_files) THEN
                [out |-> Raise("IndexError"), images |-> images, calls |-> 0]
            ELSE IF ~IsPath(img_files[idx + 1]) THEN
                [out |-> Raise("AssertionError"), images |-> images, calls |-> 0]
            ELSE IF img_files[idx + 1].path \notin fs THEN
                [out |-> Raise("FileNotFoundError"), images |-> images, calls |-> 1]
            ELSE
                LET im == np_asarray(convert(PILImage_open(img_files[idx + 1].path), "RGBA"))
                IN  [out |-> im, images |-> [images EXCEPT ![idx + 1] = im], calls |-> 1]
        ELSE [out |-> images[idx + 1], images |-> images, calls |-> 0]

\* every asset of the sequence is a path
AllPaths == \A i \in 1..Len(img_files) : IsPath(img_files[i])

ImageSequence_get_key(t) ==
    /\ kind = "ImageSequence" /\ err = "ok"
    /\ ret' = [op |-> "get_key", time |-> t, value |-> ImageSequenceKey(t)]
    /\ UNCHANGED <<threads, kind, err, ctor, fs, img_file, image, duration, start_times,
                   end_times, img_files, images, fps, n_frame, decodeCalls,
                   readerCalls, requested, resolved, queried>>

ImageSequence__call__(t) ==
    /\ kind = "ImageSequence" /\ err = "ok"
    /\ LET r == ImageSequenceCall(t)
       IN  /\ decodeCalls + r.calls <= DecodeCap
           /\ images' = r.images
           /\ decodeCalls' = decodeCalls + r.calls
           /\ ret' = [op |-> "evaluate", time |-> t, value |-> r.out]
    /\ resolved' = IF get_state(t) >= 0 /\ AllPaths
                   THEN resolved \cup {get_state(t)}
                   ELSE resolved
    /\ UNCHANGED <<threads, kind, err, ctor, fs, img_file, image, duration, start_times,
                   end_times, img_files, fps, n_frame, readerCalls, requested,
                   queried>>

----------------------------------------------------------------------------
(* Video *)

\* Python's int() of the quotient a / b, b > 0: truncation towards zero
int(a, b) == IF a >= 0 THEN a \div b ELSE 0 - ((0 - a) \div b)

\* get_key with the end of the video excluded
VideoKey_exclusive(t) ==
    IF t < 0 \/ duration <= t THEN 0 - 1
    ELSE int(t * fps, TicksPerUnit)

\* Video.get_key as a function of the object's state
VideoKey(t) ==
    IF t < 0 \/ duration < t THEN 0 - 1
    ELSE int(t * fps, TicksPerUnit)

\* a frame index counted from 1
VideoFrameIndex_onebased(t) == int(t * fps, TicksPerUnit) + 1

\* the frame index Video.__call__ computes
VideoFrameIndex(t) == int(t * fps, TicksPerUnit)

\* imageio reader get_data: a frame of the readable range, or a failure
get_data(i) ==
    IF 0 <= i /\ i < n_frame THEN NdArray(i, 3, 3, "uint8")
    ELSE Raise("IndexError")

\* PIL.Image.fromarray of an (H, W, 3) frame
fromarray(a) == PilImage(a.src, IF a.channels = 4 THEN "RGBA" ELSE "RGB")

\* __call__ that returns None for an index the reader cannot serve
VideoCall_absent(t) ==
    LET frame == get_data(VideoFrameIndex(t))
    IN  IF frame.tag = "raise" THEN None
        ELSE np_asarray(convert(fromarray(frame), "RGBA"))

\* Video.__call__: the returned value
VideoCall(t) ==
    LET frame == get_data(VideoFrameIndex(t))
    IN  IF frame.tag = "raise" THEN frame
        ELSE np_asarray(convert(fromarray(frame), "RGBA"))

Video_get_key(t) ==
    /\ kind = "Video" /\ err = "ok"
    /\ ret' = [op |-> "get_key", time |-> t, value |-> VideoKey(t)]
    /\ UNCHANGED <<threads, kind, err, ctor, fs, img_file, image, duration, start_times,
                   end_times, img_files, images, fps, n_frame, decodeCalls,
                   readerCalls, requested, resolved, queried>>

Video__call__(t) ==
    /\ kind = "Video" /\ err = "ok"
    /\ readerCalls < MaxCalls
    /\ readerCalls' = readerCalls + 1
    /\ requested' = VideoFrameIndex(t)
    /\ ret' = [op |-> "evaluate", time |-> t, value |-> VideoCall(t)]
    /\ UNCHANGED <<threads, kind, err, ctor, fs, img_file, image, duration, start_times,
                   end_times, img_files, images, fps, n_frame, decodeCalls,
                   resolved, queried>>

----------------------------------------------------------------------------
(* Construction *)

NoCall == [op |-> "__init__", time |-> 0, value |-> None]

\* a thread that has not entered __call__
Idle == [pc |-> "idle", time |-> 0, idx |-> 0, image |-> None, out |-> None]

Ghosts ==
    /\ fs = ExistingPaths
    /\ decodeCalls = 0 /\ readerCalls = 0 /\ requested = 0
    /\ resolved = {} /\ queried = 0
    /\ ret = NoCall
    /\ threads = [th \in Threads |-> Idle]

InitImage ==
    \E f \in ImageInputs, d \in 0..MaxDuration :
        /\ kind = "Image"
        /\ ctor = [via |-> "__init__", each_duration |-> 0]
        /\ img_file = f
        /\ err = Image__init__(f, ExistingPaths).err
        /\ image = Image__init__(f, ExistingPaths).image
        /\ duration = d
        /\ start_times = <<>> /\ end_times = <<>>
        /\ img_files = <<>> /\ images = <<>>
        /\ fps = 0 /\ n_frame = 0
        /\ Ghosts

\* Caller-supplied intervals, in any order, overlapping or not.  An interval
\* whose end is before its start holds no time, exactly like the empty
\* interval start = end, which is kept; the former is left out.
Intervals == { iv \in Times \X Times : iv[1] <= iv[2] }

InitImageSequence ==
    \E n \in 0..MaxIntervals, m \in 0..MaxAssets :
      \E ivs \in [1..n -> Intervals], files \in [1..m -> DirectInputs] :
        /\ kind = "ImageSequence"
        /\ ctor = [via |-> "__init__", each_duration |-> 0]
        /\ start_times = [i \in 1..n |-> ivs[i][1]]
        /\ end_times = [i \in 1..n |-> ivs[i][2]]
        /\ img_files = files
        /\ err = ImageSequence__init__(files, ExistingPaths).err
        /\ images = ImageSequence__init__(files, ExistingPaths).images
        /\ img_file = None /\ image = None /\ duration = 0
        /\ fps = 0 /\ n_frame = 0
        /\ Ghosts

InitFromFiles ==
    \E m \in 0..MaxIntervals, e \in 0..MaxEach :
      \E files \in [1..m -> SeqInputs] :
        /\ kind = "ImageSequence"
        /\ ctor = [via |-> "from_files", each_duration |-> e]
        /\ start_times = from_files(files, e).start_times
        /\ end_times = from_files(files, e).end_times
        /\ img_files = files
        /\ err = ImageSequence__init__(files, ExistingPaths).err
        /\ images = ImageSequence__init__(files, ExistingPaths).images
        /\ img_file = None /\ image = None /\ duration = 0
        /\ fps = 0 /\ n_frame = 0
        /\ Ghosts

InitVideo ==
    \E p \in Paths, f \in 1..MaxFps, n \in 0..MaxFrames, d \in 0..MaxDuration :
        /\ kind = "Video"
        /\ ctor = [via |-> "__init__", each_duration |-> 0]
        /\ img_file = PathOf(p)
        /\ err = IF p \in ExistingPaths THEN "ok" ELSE "FileNotFoundError"
        /\ fps = IF p \in ExistingPaths THEN f ELSE 0
        /\ n_frame = IF p \in ExistingPaths THEN n ELSE 0
        /\ duration = IF p \in ExistingPaths THEN d ELSE 0
        /\ image = None
        /\ start_times = <<>> /\ end_times = <<>>
        /\ img_files = <<>> /\ images = <<>>
        /\ Ghosts

Init == InitImage \/ InitImageSequence \/ InitFromFiles \/ InitVideo

Next ==
    \/ \E t \in TimeArgs : Image_get_key(t)
    \/ \E t \in TimeArgs : Image__call__(t)
    \/ Image_size
    \/ \E t \in TimeArgs : ImageSequence_get_key(t)
    \/ \E t \in TimeArgs : ImageSequence__call__(t)
    \/ \E t \in TimeArgs : Video_get_key(t)
    \/ \E t \in TimeArgs : Video__call__(t)

Spec == Init /\ [][Next]_vars

----------------------------------------------------------------------------
(* from_files over lists long enough for its sums to be rounded *)

\* the time arguments: the values of the format up to the last end time
FloatTimeArgs ==
    { t \in (0 - 1)..(MaxFloatLen * MaxFloatEach + MaxFloatEach) : IsFloat(t) }

\* The assets are PIL images, which the constructor decodes: the layers
\* differ in their intervals only.
InitFloat ==
    \E m \in 0..MaxFloatLen, e \in 0..MaxFloatEach :
      LET files == [i \in 1..m |-> PilImage("pil", "RGB")]
      IN  /\ kind = "ImageSequence"
          /\ ctor = [via |-> "from_files", each_duration |-> e]
          /\ start_times = from_files(files, e).start_times
          /\ end_times = from_files(files, e).end_times
          /\ img_files = files
          /\ err = ImageSequence__init__(files, ExistingPaths).err
          /\ images = ImageSequence__init__(files, ExistingPaths).images
          /\ img_file = None /\ image = None /\ duration = 0
          /\ fps = 0 /\ n_frame = 0
          /\ Ghosts

NextFloat ==
    \/ \E t \in FloatTimeArgs : ImageSequence_get_key(t)
    \/ \E t \in FloatTimeArgs : ImageSequence__call__(t)

SpecFloat == InitFloat /\ [][NextFloat]_vars

----------------------------------------------------------------------------
(* The layers with a cache, on a filesystem whose files come and go after   *)
(* the construction                                                        *)

\* another process removes a file
FileRemoved(p) ==
    /\ p \in fs
    /\ fs' = fs \ {p}
    /\ UNCHANGED <<threads, kind, err, ctor, img_file, image, duration,
                   start_times, end_times, img_files, images, fps, n_frame,
                   decodeCalls, readerCalls, requested, resolved, queried, ret>>

\* another process writes a file
FileWritten(p) ==
    /\ p \notin fs
    /\ fs' = fs \cup {p}
    /\ UNCHANGED <<threads, kind, err, ctor, img_file, image, duration,
                   start_times, end_times, img_files, images, fps, n_frame,
                   decodeCalls, readerCalls, requested, resolved, queried, ret>>

\* a constructed layer refers to no path outside ExistingPaths
InitEnv == (InitImage \/ InitFromFiles) /\ err = "ok"

NextEnv ==
    \/ \E t \in TimeArgs : Image__call__(t)
    \/ Image_size
    \/ \E t \in TimeArgs : ImageSequence__call__(t)
    \/ \E p \in ExistingPaths : FileRemoved(p)
    \/ \E p \in ExistingPaths : FileWritten(p)

SpecEnv == InitEnv /\ [][NextEnv]_vars

----------------------------------------------------------------------------
(* Two threads inside __call__ of one layer.  A step is one statement of the *)
(* method: the threads interleave between the test of the cache, the decode *)
(* and the assignment to the cache.                                          *)

\* what every step of a thread leaves alone
layer == <<kind, err, ctor, fs, img_file, duration, start_times, end_times,
           img_files, fps, n_frame, readerCalls, requested, resolved,
           queried, ret>>

\* lines 170-172: idx = self.get_state(time); if idx < 0: return None
ImageSequenceT_lookup(th, t) ==
    /\ kind = "ImageSequence" /\ err = "ok"
    /\ threads[th].pc = "idle"
    /\ threads' = [threads EXCEPT ![th] =
                     IF get_state(t) < 0
                     THEN [@ EXCEPT !.pc = "done", !.time = t,
                                    !.idx = get_state(t), !.out = None]
                     ELSE [@ EXCEPT !.pc = "test", !.time = t,
                                    !.idx = get_state(t)]]
    /\ UNCHANGED <<layer, image, images, decodeCalls>>

\* line 173: if self.images[idx] is None
ImageSequenceT_test(th) ==
    /\ kind = "ImageSequence" /\ threads[th].pc = "test"
    /\ LET idx == threads[th].idx
       IN  threads' = [threads EXCEPT ![th] =
                         IF idx >= Len(images)
                         THEN [@ EXCEPT !.pc = "done", !.out = Raise("IndexError")]
                         ELSE IF images[idx + 1] = None
                         THEN [@ EXCEPT !.pc = "decode"]
                         ELSE [@ EXCEPT !.pc = "return"]]
    /\ UNCHANGED <<layer, image, images, decodeCalls>>

\* lines 174-176: image = np.asarray(PILImage.open(img_file).convert("RGBA"))
ImageSequenceT_decode(th) ==
    /\ kind = "ImageSequence" /\ threads[th].pc = "decode"
    /\ LET f == img_files[threads[th].idx + 1]
       IN  IF ~IsPath(f) THEN
               /\ threads' = [threads EXCEPT ![th] =
                     [@ EXCEPT !.pc = "done", !.out = Raise("AssertionError")]]
               /\ UNCHANGED decodeCalls
           ELSE IF f.path \notin fs THEN
               /\ threads' = [threads EXCEPT ![th] =
                     [@ EXCEPT !.pc = "done", !.out = Raise("FileNotFoundError")]]
               /\ decodeCalls' = decodeCalls + 1
           ELSE
               /\ threads' = [threads EXCEPT ![th] =
                     [@ EXCEPT !.pc = "store",
                               !.image = np_asarray(convert(PILImage_open(f.path), "RGBA"))]]
               /\ decodeCalls' = decodeCalls + 1
    /\ UNCHANGED <<layer, image, images>>

\* the assignment of line 177 left out
ImageSequenceT_store_dropped(th) ==
    /\ kind = "ImageSequence" /\ threads[th].pc = "store"
    /\ threads' = [threads EXCEPT ![th] = [@ EXCEPT !.pc = "return"]]
    /\ UNCHANGED <<layer, image, images, decodeCalls>>

\* line 177: self.images[idx] = image
ImageSequenceT_store(th) ==
    /\ kind = "ImageSequence" /\ threads[th].pc = "store"
    /\ images' = [images EXCEPT ![threads[th].idx + 1] = threads[th].image]
    /\ threads' = [threads EXCEPT ![th] = [@ EXCEPT !.pc = "return"]]
    /\ UNCHANGED <<layer, image, decodeCalls>>

\* line 178: return self.images[idx]
ImageSequenceT_return(th) ==
    /\ kind = "ImageSequence" /\ threads[th].pc = "return"
    /\ threads' = [threads EXCEPT ![th] =
                     [@ EXCEPT !.pc = "done", !.out = images[threads[th].idx + 1]]]
    /\ UNCHANGED <<layer, image, images, decodeCalls>>

\* line 78: the call of self._read_image()
ImageT_enter(th, t) ==
    /\ kind = "Image" /\ err = "ok"
    /\ threads[th].pc = "idle"
    /\ threads' = [threads EXCEPT ![th] = [@ EXCEPT !.pc = "test", !.time = t]]
    /\ UNCHANGED <<layer, image, images, decodeCalls>>

\* line 71: if self.image is None
ImageT_test(th) ==
    /\ kind = "Image" /\ threads[th].pc = "test"
    /\ threads' = [threads EXCEPT ![th] =
                     IF image = None THEN [@ EXCEPT !.pc = "decode"]
                     ELSE [@ EXCEPT !.pc = "return"]]
    /\ UNCHANGED <<layer, image, images, decodeCalls>>

\* lines 72-73: image = np.asarray(PILImage.open(self._img_file).convert("RGBA"))
ImageT_decode(th) ==
    /\ kind = "Image" /\ threads[th].pc = "decode"
    /\ IF ~IsPath(img_file) THEN
           /\ threads' = [threads EXCEPT ![th] =
                 [@ EXCEPT !.pc = "done", !.out = Raise("AssertionError")]]
           /\ UNCHANGED decodeCalls
       ELSE IF img_file.path \notin fs THEN
           /\ threads' = [threads EXCEPT ![th] =
                 [@ EXCEPT !.pc = "done", !.out = Raise("FileNotFoundError")]]
           /\ decodeCalls' = decodeCalls + 1
       ELSE
           /\ threads' = [threads EXCEPT ![th] =
                 [@ EXCEPT !.pc = "store",
                           !.image = np_asarray(convert(PILImage_open(img_file.path), "RGBA"))]]
           /\ decodeCalls' = decodeCalls + 1
    /\ UNCHANGED <<layer, image, images>>

\* line 74: self.image = image
ImageT_store(th) ==
    /\ kind = "Image" /\ threads[th].pc = "store"
    /\ image' = threads[th].image
    /\ threads' = [threads EXCEPT ![th] = [@ EXCEPT !.pc = "return"]]
    /\ UNCHANGED <<layer, images, decodeCalls>>

\* line 75: return self.image
ImageT_return(th) ==
    /\ kind = "Image" /\ threads[th].pc = "return"
    /\ threads' = [threads EXCEPT ![th] = [@ EXCEPT !.pc = "done", !.out = image]]
    /\ UNCHANGED <<layer, image, images, decodeCalls>>

\* the layers with a cache, constructed without an exception
InitThreads == (InitImage \/ InitFromFiles) /\ err = "ok"

NextThreads ==
    \/ \E th \in Threads, t \in TimeArgs : ImageSequenceT_lookup(th, t)
    \/ \E th \in Threads : ImageSequenceT_test(th)
    \/ \E th \in Threads : ImageSequenceT_decode(th)
    \/ \E th \in Threads : ImageSequenceT_store(th)
    \/ \E th \in Threads : ImageSequenceT_return(th)
    \/ \E th \in Threads, t \in TimeArgs : ImageT_enter(th, t)
    \/ \E th \in Threads : ImageT_test(th)
    \/ \E th \in Threads : ImageT_decode(th)
    \/ \E th \in Threads : ImageT_store(th)
    \/ \E th \in Threads : ImageT_return(th)

SpecThreads == InitThreads /\ [][NextThreads]_vars

----------------------------------------------------------------------------
(* Properties *)

IsSeq == kind = "ImageSequence" /\ err = "ok"

IsImage == kind = "Image" /\ err = "ok"

IsVideo == kind = "Video" /\ err = "ok"

\* C1: for an ImageSequence whose assets are all paths (at least one), the
\* number of codec calls equals the number of distinct indices >= 0 that the
\* __call__ calls so far resolved to.
C1_DecodeCountIsDistinctIndices ==
    (IsSeq /\ Len(img_files) >= 1 /\ AllPaths)
        => decodeCalls = Cardinality(resolved)

\* C2: an Image made from a path has made exactly one codec call once any
\* __call__ or size call has happened and none before, an Image made from an
\* array or a PIL image never makes one, and a populated self.image is never
\* replaced.
C2_ImageDecodedOnce ==
    /\ [](IsImage =>
            /\ decodeCalls = IF IsPath(img_file) /\ queried > 0 THEN 1 ELSE 0
            /\ queried > 0 => image # None)
    /\ [][(IsImage /\ image # None) => image' = image]_vars

\* a path Image after two or more __call__ / size calls, the last one size
C2_Witness ==
    /\ IsImage /\ IsPath(img_file)
    /\ queried >= 2 /\ decodeCalls = 1
    /\ ret.op = "size" /\ ret.value.tag = "shape"

\* C3: every array returned by __call__ of any layer is (H, W, 4).
C3_FourChannels ==
    (err = "ok" /\ ret.op = "evaluate" /\ ret.value.tag = "ndarray")
        => (ret.value.ndim = 3 /\ ret.value.channels = RGBA)

\* the intervals of a from_files layer, by 0-based index
FromFiles == IsSeq /\ ctor.via = "from_files"

\* C4: for a from_files layer with N assets and each_duration e > 0, for
\* every i in 0..N-1, get_key(i*e) = i and get_key at the largest time below
\* i*e is i-1 (-1 for i = 0).
C4_FromFilesKeys ==
    (FromFiles /\ ctor.each_duration > 0 /\ ret.op = "get_key")
        => \A i \in 0..(Len(img_files) - 1) :
             /\ ret.time = fl(i * ctor.each_duration) => ret.value = i
             /\ ret.time = pred(fl(i * ctor.each_duration)) => ret.value = i - 1

\* t lies in no interval [start_times[i], end_times[i])
InNoInterval(t) ==
    \A i \in 1..Len(start_times) : ~(start_times[i] <= t /\ t < end_times[i])

\* C5: at a time in no interval get_key returns -1 and __call__ returns None,
\* and __call__ returns None only at a time where get_key is -1.
C5_OutsideIntervals ==
    IsSeq =>
        /\ (ret.op = "get_key" /\ InNoInterval(ret.time)) => ret.value = 0 - 1
        /\ (ret.op = "evaluate" /\ InNoInterval(ret.time)) => ret.value = None
        /\ (ret.op = "evaluate" /\ ret.value = None)
               => ImageSequenceKey(ret.time) = 0 - 1

\* __call__ at the end of a non-empty interval, with one asset per interval,
\* no interval holding that time
C5_Witness ==
    /\ IsSeq /\ ret.op = "evaluate" /\ ret.value = None
    /\ Len(img_files) = Len(start_times)
    /\ \E i \in 1..Len(start_times) :
          start_times[i] < end_times[i] /\ end_times[i] = ret.time

\* C6: Image.get_key(t) is true exactly for 0 <= t < duration, whatever the
\* image was made from.
C6_ImageKeyWindow ==
    (IsImage /\ ret.op = "get_key")
        => /\ ret.value \in BOOLEAN
           /\ ret.value <=> ret.time \in 0..(duration - 1)

\* get_key at t = duration, for a positive duration
C6_Witness ==
    /\ IsImage /\ ret.op = "get_key"
    /\ duration > 0 /\ ret.time = duration /\ ret.value = FALSE

\* C7: Video.get_key(t) is floor(t * fps) for 0 <= t <= duration and -1 for
\* t < 0 or t > duration (t ticks are t / TicksPerUnit time units).
C7_VideoKey ==
    (IsVideo /\ ret.op = "get_key")
        => IF 0 <= ret.time /\ ret.time <= duration
           THEN ret.value = (ret.time * fps) \div TicksPerUnit
           ELSE ret.value = 0 - 1

\* get_key at t = duration, resolving to a frame after the first
C7_Witness ==
    /\ IsVideo /\ ret.op = "get_key"
    /\ ret.time = duration /\ ret.value >= 1

\* no time argument lies in two intervals
PairwiseDisjoint == \A t \in TimeArgs : Cardinality(Containing(t)) <= 1

\* the intervals are non-empty, in increasing order and do not overlap
SortedDisjoint ==
    \A i \in 1..Len(start_times) :
        /\ start_times[i] < end_times[i]
        /\ i < Len(start_times) => end_times[i] <= start_times[i + 1]

\* every interval holds some time
NonEmpty == \A i \in 1..Len(start_times) : start_times[i] < end_times[i]

\* C8 as stated, for layers with one asset per interval whose intervals are
\* non-empty and do not overlap (so that at most one interval holds any
\* time): get_key(end[i]) is i+1 or -1, for every index i.
C8_EndResolvesToNext_Original ==
    (IsSeq /\ Len(img_files) = Len(start_times) /\ NonEmpty /\ PairwiseDisjoint
        /\ ret.op = "get_key")
        => \A i \in 0..(Len(end_times) - 1) :
             ret.time = end_times[i + 1] => ret.value \in {i + 1, 0 - 1}

\* C8 amended: get_key(end[i]) is never i; it is i+1 or -1 when the intervals
\* are non-empty, in increasing order and non-overlapping.
C8_EndNeverResolvesToSelf ==
    (IsSeq /\ ret.op = "get_key")
        => \A i \in 0..(Len(end_times) - 1) :
             ret.time = end_times[i + 1]
                => /\ ret.value # i
                   /\ SortedDisjoint => ret.value \in {i + 1, 0 - 1}

\* get_key at the end of the first of two caller-supplied adjacent intervals
C8_Witness ==
    /\ IsSeq /\ ctor.via = "__init__" /\ Len(start_times) = 2 /\ SortedDisjoint
    /\ end_times[1] = start_times[2]
    /\ ret.op = "get_key" /\ ret.time = end_times[1] /\ ret.value = 1

\* C9: a constructed ImageSequence has as many intervals as assets as cache
\* slots, so every key get_key returns is a position of the cache.
C9_LengthsAgree ==
    IsSeq =>
        /\ Len(start_times) = Len(img_files)
        /\ Len(img_files) = Len(images)
        /\ \A t \in TimeArgs : ImageSequenceKey(t) < Len(images)

\* C10: a get_key call leaves Image.image, every ImageSequence.images slot
\* and the numbers of codec and reader calls unchanged.
C10_GetKeyDoesNotDecode ==
    [][ret'.op = "get_key"
         => /\ image' = image /\ images' = images
            /\ decodeCalls' = decodeCalls /\ readerCalls' = readerCalls]_vars

\* get_key on a sequence with one slot decoded and another still absent
C10_Witness ==
    /\ IsSeq /\ ret.op = "get_key" /\ decodeCalls = 1
    /\ \E i, j \in 1..Len(images) : images[i] = None /\ images[j] # None

\* C11: an Image or an ImageSequence given paths fails in its constructor
\* exactly when one of the paths does not exist then; after a successful
\* construction image is None until the first __call__ or size call, and the
\* slot of a path asset is None as long as no __call__ resolved to it.
C11_PathConstruction ==
    /\ (kind = "Image" /\ IsPath(img_file)) =>
          /\ err # "ok" <=> img_file.path \notin ExistingPaths
          /\ (err = "ok" /\ queried = 0) => (image = None /\ decodeCalls = 0)
    /\ (kind = "ImageSequence" /\ AllPaths) =>
          /\ err # "ok" <=> \E i \in 1..Len(img_files) :
                               img_files[i].path \notin ExistingPaths
          /\ err = "ok" => \A i \in 1..Len(images) :
                               (i - 1) \notin resolved => images[i] = None
    /\ (IsSeq /\ decodeCalls = 0) =>
          \A i \in 1..Len(images) : IsPath(img_files[i]) => images[i] = None

\* a sequence of two paths after a __call__ that decoded the first: the
\* second slot is still None
C11_Witness ==
    /\ IsSeq /\ AllPaths /\ Len(images) = 2
    /\ ret.op = "evaluate" /\ resolved = {0}
    /\ images[1] # None /\ images[2] = None

\* C12: every Image.__call__ returns self.image, an array and never None,
\* whatever the time argument, and self.image never changes once it is set,
\* so all __call__ calls of a layer return the same buffer.
C12_ImageSameBuffer ==
    /\ []((IsImage /\ ret.op = "evaluate")
            => (ret.value = image /\ ret.value.tag = "ndarray"))
    /\ [][(IsImage /\ ret.op = "evaluate" /\ ret'.op = "evaluate")
            => ret'.value = ret.value]_vars
    /\ [][(IsImage /\ image # None) => image' = image]_vars

\* a second or later query, a __call__ at a time outside [0, duration)
C12_Witness ==
    /\ IsImage /\ ret.op = "evaluate" /\ queried >= 2
    /\ ~ImageKey(ret.time) /\ ret.value = image /\ image # None

\* C13: Video.__call__(t) always asks the reader for frame int(t * fps) and
\* returns the reader's failure when that index is outside 0..n_frame-1; it
\* never returns None, also for 0 <= t <= duration, where get_key is not -1.
C13_VideoIndexUnchecked ==
    (IsVideo /\ ret.op = "evaluate")
        => /\ requested = int(ret.time * fps, TicksPerUnit)
           /\ ret.value # None
           /\ (requested < 0 \/ requested >= n_frame)
                 => ret.value = Raise("IndexError")

\* __call__ at t = duration of a video with frames, fps * duration reaching
\* n_frame: get_key(t) is n_frame and the reader fails
C13_Witness ==
    /\ IsVideo /\ ret.op = "evaluate" /\ n_frame > 0
    /\ ret.time = duration /\ fps * duration = n_frame * TicksPerUnit
    /\ VideoKey(ret.time) = n_frame /\ requested = n_frame
    /\ ret.value = Raise("IndexError")

\* C15 as stated: for 0 <= t <= duration the index Video.__call__(t)
\* requests equals get_key(t); for every other t get_key(t) is -1 and the
\* requested index int(t * fps) differs from it.
C15_IndexVersusKey_Original ==
    (IsVideo /\ ret.op = "evaluate")
        => IF 0 <= ret.time /\ ret.time <= duration
           THEN requested = VideoKey(ret.time)
           ELSE /\ VideoKey(ret.time) = 0 - 1
                /\ requested # VideoKey(ret.time)

\* C15 amended: for 0 <= t <= duration the requested index equals
\* get_key(t); for every other t get_key(t) is -1 and the requested index is
\* int(t * fps), truncated towards zero, which differs from -1 except when
\* -2 < t * fps <= -1.
C15_IndexVersusKey ==
    (IsVideo /\ ret.op = "evaluate")
        => IF 0 <= ret.time /\ ret.time <= duration
           THEN requested = VideoKey(ret.time)
           ELSE /\ VideoKey(ret.time) = 0 - 1
                /\ requested = int(ret.time * fps, TicksPerUnit)
                /\ requested = VideoKey(ret.time)
                     <=> (0 - 2 * TicksPerUnit < ret.time * fps
                            /\ ret.time * fps <= 0 - TicksPerUnit)

\* __call__ after the end of the video: a frame index >= 1 is requested
\* where get_key is -1
C15_Witness ==
    /\ IsVideo /\ ret.op = "evaluate" /\ ret.time > duration
    /\ requested >= 1 /\ VideoKey(ret.time) = 0 - 1

\* C16: in an ImageSequence the slot of every array or PIL asset is set by
\* the constructor and only slots of paths are None; a __call__ that
\* resolves to an array or PIL asset returns that slot, makes no codec call
\* and raises nothing.
C16_ObjectsEager ==
    /\ [](IsSeq => /\ Len(images) = Len(img_files)
                   /\ \A i \in 1..Len(images) :
                        /\ ~IsPath(img_files[i]) => images[i] # None
                        /\ images[i] = None => IsPath(img_files[i]))
    /\ []((IsSeq /\ ret.op = "evaluate" /\ ImageSequenceKey(ret.time) >= 0
             /\ ImageSequenceKey(ret.time) < Len(img_files)
             /\ ~IsPath(img_files[ImageSequenceKey(ret.time) + 1]))
            => ret.value = images[ImageSequenceKey(ret.time) + 1]
                 /\ ret.value.tag = "ndarray")
    /\ [][(IsSeq /\ ret'.op = "evaluate" /\ ImageSequenceKey(ret'.time) >= 0
             /\ ImageSequenceKey(ret'.time) < Len(img_files)
             /\ ~IsPath(img_files[ImageSequenceKey(ret'.time) + 1]))
            => (decodeCalls' = decodeCalls /\ images' = images)]_vars

\* a sequence of a path and an array, __call__ resolving to the array while
\* the path is still undecoded
C16_Witness ==
    /\ IsSeq /\ Len(img_files) = 2
    /\ IsPath(img_files[1]) /\ img_files[2].tag = "ndarray"
    /\ ret.op = "evaluate" /\ ImageSequenceKey(ret.time) = 1
    /\ ret.value = img_files[2] /\ images[1] = None /\ decodeCalls = 0

\* C18: a step of an ImageSequence changes a cache slot only in a __call__(t)
\* with get_key(t) the index of that slot, and only from None to a buffer:
\* no other slot changes, nothing changes when get_key(t) is -1 or the slot
\* is set, and a set slot keeps its buffer.
C18_EvaluateFrame ==
    [][IsSeq =>
         /\ Len(images') = Len(images)
         /\ \A i \in 1..Len(images) :
              images'[i] # images[i]
                 => /\ ret'.op = "evaluate"
                    /\ ImageSequenceKey(ret'.time) = i - 1
                    /\ images[i] = None /\ images'[i] # None]_vars

\* the __call__ that decodes the second slot of a sequence whose first slot
\* was decoded before
C18_Witness ==
    /\ IsSeq /\ AllPaths /\ Len(images) = 2 /\ decodeCalls = 2
    /\ ret.op = "evaluate" /\ ImageSequenceKey(ret.time) = 1
    /\ images[1] # None /\ images[2] = ret.value

\* C14: for a from_files layer with N assets and each_duration e > 0,
\* end[i] = start[i+1] for every i < N-1, every time t with 0 <= t < N*e
\* lies in exactly one interval, and get_key(t) is floor(t/e) there.
C14_FromFilesContiguous ==
    (FromFiles /\ ctor.each_duration > 0)
        => /\ \A i \in 1..(Len(img_files) - 1) :
                end_times[i] = start_times[i + 1]
           /\ \A t \in 0..(fl(Len(img_files) * ctor.each_duration) - 1) :
                IsFloat(t) => Cardinality(Containing(t)) = 1
           /\ (ret.op = "get_key" /\ 0 <= ret.time
                  /\ ret.time < fl(Len(img_files) * ctor.each_duration))
                => ret.value = ret.time \div ctor.each_duration

\* both threads have returned from __call__
AllDone == \A th \in Threads : threads[th].pc = "done"

\* the threads called for the same asset, a path that was not decoded when
\* the first of them entered: the cell of an Image, or one index of an
\* ImageSequence
SameAsset ==
    \/ /\ kind = "Image" /\ IsPath(img_file)
       /\ \A th \in Threads : threads[th].pc # "idle"
    \/ /\ kind = "ImageSequence"
       /\ \A th \in Threads : threads[th].pc # "idle"
       /\ \E i \in 0..(Len(img_files) - 1) :
            /\ IsPath(img_files[i + 1])
            /\ \A th \in Threads : threads[th].idx = i

\* C17: when two threads call __call__ for the same undecoded path asset,
\* between one and two codec calls are made, and once both have returned the
\* cache slot is set and each thread has returned a buffer with the file's
\* decoded RGBA content.
C17_BothGetBuffer ==
    SameAsset =>
        /\ decodeCalls <= 2
        /\ AllDone =>
             /\ decodeCalls >= 1
             /\ \A th \in Threads :
                  /\ threads[th].out.tag = "ndarray"
                  /\ threads[th].out.channels = RGBA
                  /\ kind = "Image" => image = threads[th].out
                  /\ kind = "ImageSequence"
                        => images[threads[th].idx + 1] = threads[th].out

\* both threads have returned after each of them decoded the asset
C17_Witness ==
    /\ SameAsset /\ AllDone /\ decodeCalls = 2
    /\ kind = "ImageSequence" /\ images[threads[1].idx + 1] # None

\* C19: a __call__ (or size) that has to decode a path whose file is missing
\* returns the codec's FileNotFoundError after one codec call and changes no
\* cache slot; with the file present it decodes, after earlier failures too,
\* and stores what it returns; no step that raises changes a cache slot.
C19_DecodeFailure ==
    [][fs' = fs =>
         /\ (IsImage /\ IsPath(img_file) /\ image = None)
               => IF img_file.path \in fs
                  THEN /\ image'.tag = "ndarray" /\ image'.src = img_file.path
                       /\ decodeCalls' = decodeCalls + 1
                       /\ ret'.op = "evaluate" => ret'.value = image'
                  ELSE /\ ret'.value = Raise("FileNotFoundError")
                       /\ image' = None
                       /\ decodeCalls' = decodeCalls + 1
         /\ (IsSeq /\ ImageSequenceKey(ret'.time) >= 0
                /\ ImageSequenceKey(ret'.time) < Len(img_files)
                /\ IsPath(img_files[ImageSequenceKey(ret'.time) + 1])
                /\ images[ImageSequenceKey(ret'.time) + 1] = None)
               => LET i == ImageSequenceKey(ret'.time) + 1
                  IN  IF img_files[i].path \in fs
                      THEN /\ ret'.value.tag = "ndarray"
                           /\ ret'.value.src = img_files[i].path
                           /\ images' = [images EXCEPT ![i] = ret'.value]
                           /\ decodeCalls' = decodeCalls + 1
                      ELSE /\ ret'.value = Raise("FileNotFoundError")
                           /\ images' = images
                           /\ decodeCalls' = decodeCalls + 1
         /\ ret'.value.tag = "raise" => (image' = image /\ images' = images)]_vars

\* a sequence of one path whose second decode succeeded: the first attempt
\* failed while the file was away
C19_Witness ==
    /\ IsSeq /\ Len(img_files) = 1 /\ IsPath(img_files[1])
    /\ decodeCalls = 2 /\ ret.op = "evaluate"
    /\ images[1] # None /\ ret.value = images[1]

====
